---- MODULE Spec2Model ----
(***************************************************************************)
(* A model of the stock dashboard's cores:                                 *)
(*   - StockDataFetcher (src/stock_utils.py): validate_ticker and the      *)
(*     memoised fetch_stock_data;                                          *)
(*   - StockAnalyzer (src/stock_analyzer.py): the analyses and the         *)
(*     recommendation scorer;                                              *)
(*   - the news pages (src/Sentimental.py, src/Sector_Sentiment.py):       *)
(*     fetch_news and classify_sentiment.                                  *)
(* Strings are sequences of one-character strings.  Ratios are integers in *)
(* hundredths, scores are integers, totals are integers in tenths, prices  *)
(* are integers, compound sentiment scores are integers in thousandths.    *)
(***************************************************************************)
EXTENDS Integers, Sequences, FiniteSets, TLC

VARIABLES
    sym,        \* validate_ticker: the symbol passed in
    verdict,    \* validate_ticker: "pending" or the outcome of the call
    clock,      \* wall clock, seconds
    cache,      \* st.cache_data store of fetch_stock_data: key -> entry
    clean,      \* history: the store a memo that keeps no failed result would hold
    last,       \* history: the most recent fetch_stock_data call
    prev,       \* history: key, time and result of the call before it
    technical_signals,      \* StockAnalyzer.technical_signals
    fundamental_metrics,    \* StockAnalyzer.fundamental_metrics
    sentiment_score,        \* StockAnalyzer.sentiment_score
    data,       \* StockAnalyzer.data
    info,       \* StockAnalyzer.info
    ret,        \* what the last StockAnalyzer method called returned
    feed,       \* news pages: what the news provider answers
    headlines,  \* news pages: the compound scores of the articles' texts
    page,       \* news pages: what the last page function called produced
    home,       \* Home.main: the position of the run and what it has shown
    forecast,   \* Prediction.main: the forecast loop
    session,    \* Technical_Analysis: st.session_state and the runs of the page
    loaded      \* Prediction.load_data: the request and what the call did

tickerVars == <<sym, verdict>>

fetchVars == <<clock, cache, clean, last, prev>>

analyzerVars ==
    <<technical_signals, fundamental_metrics, sentiment_score, data, info, ret>>

newsVars == <<feed, headlines, page>>

pageVars == <<home, forecast, session, loaded>>

vars == <<tickerVars, fetchVars, analyzerVars, newsVars, pageVars>>

-----------------------------------------------------------------------------
(* Bounds *)

MaxSymLen == 7

\* the clock runs from 0 to MaxClock in steps of ClockStep seconds
MaxClock == 1800

\* the news pages are applied to every list of up to MaxArticles articles
MaxArticles == 2

\* the forecast runs with lookback MinLookback..MaxLookback and with 1 to
\* MaxPeriods prediction periods
MaxLookback == 11

MaxPeriods == 12

-----------------------------------------------------------------------------
(* Python str operations used by validate_ticker *)

SymChars == {"L", "l", "-", ".", " "}

Symbols == UNION {[1..n -> SymChars] : n \in 0..MaxSymLen}

IsSpace(c) == c = " "

IsAlnumChar(c) == c \in {"L", "l"}

UpperChar(c) == IF c = "l" THEN "L" ELSE c

RECURSIVE LStrip(_)
LStrip(s) == IF s # <<>> /\ IsSpace(Head(s)) THEN LStrip(Tail(s)) ELSE s

RECURSIVE RStrip(_)
RStrip(s) ==
    IF s # <<>> /\ IsSpace(s[Len(s)]) THEN RStrip(SubSeq(s, 1, Len(s) - 1)) ELSE s

\* str.strip()
Strip(s) == RStrip(LStrip(s))

\* str.upper()
Upper(s) == [i \in 1..Len(s) |-> UpperChar(s[i])]

\* '.' in s
HasDot(s) == \E i \in 1..Len(s) : s[i] = "."

\* positions of the dots of s, and the end of the k-th field of s.split('.')
DotsOf(s) == {i \in 1..Len(s) : s[i] = "."}

RECURSIVE NthDot(_, _)
NthDot(s, k) ==
    LET after == IF k = 1 THEN DotsOf(s)
                 ELSE {i \in DotsOf(s) : i > NthDot(s, k - 1)}
    IN  IF after = {} THEN Len(s) + 1
        ELSE CHOOSE i \in after : \A j \in after : i <= j

\* s.split('.')[0]
SplitDot0(s) == SubSeq(s, 1, NthDot(s, 1) - 1)

\* s.split('.')[1], for s holding a dot
SplitDot1(s) == SubSeq(s, NthDot(s, 1) + 1, NthDot(s, 2) - 1)

\* s.replace('-', '')
RECURSIVE DropHyphens(_)
DropHyphens(s) ==
    IF s = <<>> THEN <<>>
    ELSE IF Head(s) = "-" THEN DropHyphens(Tail(s))
    ELSE <<Head(s)>> \o DropHyphens(Tail(s))

\* str.isalnum(): false for the empty string
IsAlnum(s) == s # <<>> /\ \A i \in 1..Len(s) : IsAlnumChar(s[i])

-----------------------------------------------------------------------------
(* StockDataFetcher.validate_ticker *)

valid_suffixes ==
    { <<".", "N", "S">>, <<".", "B", "O">>, <<".", "L">>,
      <<".", "P", "A">>, <<".", "D", "E">>, <<".", "H", "K">> }

\* symbol.strip().upper()
Normalized(symbol) == Upper(Strip(symbol))

\* '.' + symbol.split('.')[1]
SuffixOf(symbol) == <<".">> \o SplitDot1(symbol)

DottedLimit == 6

PlainLimit == 5

\* faulty variants of the suffix test: the length ignored, the test dropped
SuffixRejectedAlways(symbol) == SuffixOf(symbol) \notin valid_suffixes

SuffixRejectedNever(symbol) == FALSE

\* line 26: suffix not in valid_suffixes and len(symbol) > 6
SuffixRejected(symbol) ==
    SuffixOf(symbol) \notin valid_suffixes /\ Len(symbol) > DottedLimit

\* The outcome names the st.error branch taken; "ok" is return True.
validate_outcome(symbol) ==
    IF symbol = <<>> THEN "empty"
    ELSE LET s == Normalized(symbol)
             base_symbol == SplitDot0(s)
         IN  IF ~IsAlnum(DropHyphens(base_symbol)) THEN "chars"
             ELSE IF HasDot(s)
                  THEN IF SuffixRejected(s) THEN "suffix" ELSE "ok"
                  ELSE IF Len(s) > PlainLimit THEN "length" ELSE "ok"

validate_ticker(symbol) == validate_outcome(symbol) = "ok"

-----------------------------------------------------------------------------
(* StockDataFetcher.fetch_stock_data: the function body *)

\* The market-data provider.  One answer per request the body can issue:
\* stock.history(period='1d'), stock.history(start, end, '1d'), stock.info.
\* An answer the body never asks for is left at its first value.
Tables == {"rows"}

Outcomes ==
    { o \in [ probe   : {"rows", "empty", "raise"},
              history : Tables \cup {"empty", "raise"},
              info    : {"info", "raise"} ] :
        /\ o.probe # "rows" => o.history = "empty"
        /\ o.history \notin Tables => o.info = "info" }

\* (None, None)
NoneNone == <<"None", "None">>

\* Faulty variants of the body: no validation, no probe, a probe whose
\* exception escapes.
BodyNoValidation(symbol, start_date, end_date, o) ==
    IF o.probe # "rows"
    THEN [result |-> NoneNone, calls |-> <<"probe">>, shown |-> "no_data"]
    ELSE [result |-> NoneNone, calls |-> <<"probe", "history">>,
          shown |-> "no_history"]

BodyNoProbe(symbol, start_date, end_date, o) ==
    IF ~validate_ticker(symbol)
    THEN [result |-> NoneNone, calls |-> <<>>, shown |-> "invalid"]
    ELSE IF o.history \notin Tables
    THEN [result |-> NoneNone, calls |-> <<"history">>, shown |-> "no_history"]
    ELSE [result |-> <<o.history, "info">>, calls |-> <<"history", "info">>,
          shown |-> "none"]

BodyProbeRaises(symbol, start_date, end_date, o) ==
    IF ~validate_ticker(symbol)
    THEN [result |-> NoneNone, calls |-> <<>>, shown |-> "invalid"]
    ELSE IF o.probe = "raise"
    THEN [result |-> <<"raised", "raised">>, calls |-> <<"probe">>,
          shown |-> "none"]
    ELSE [result |-> NoneNone, calls |-> <<"probe">>, shown |-> "no_data"]

\* a faulty variant of the body: a failed info lookup loses the price table
BodyInfoFatal(symbol, start_date, end_date, o) ==
    IF ~validate_ticker(symbol)
    THEN [result |-> NoneNone, calls |-> <<>>, shown |-> "invalid"]
    ELSE IF o.probe # "rows"
    THEN [result |-> NoneNone, calls |-> <<"probe">>, shown |-> "no_data"]
    ELSE IF o.history \notin Tables
    THEN [result |-> NoneNone, calls |-> <<"probe", "history">>,
          shown |-> "no_history"]
    ELSE IF o.info = "raise"
    THEN [result |-> NoneNone, calls |-> <<"probe", "history", "info">>,
          shown |-> "limited_info"]
    ELSE [result |-> <<o.history, "info">>,
          calls |-> <<"probe", "history", "info">>, shown |-> "none"]

\* Lines 39-81.  result is the returned pair, calls the provider requests in
\* the order issued, shown the st.error / st.warning branch.  yf.Ticker(symbol)
\* (line 44) only records the symbol; every provider request sits in an inner
\* try, so the outer handler (lines 83-93) has nothing left to catch.
fetch_body(symbol, start_date, end_date, o) ==
    IF ~validate_ticker(symbol)
    THEN [result |-> NoneNone, calls |-> <<>>, shown |-> "invalid"]
    ELSE IF o.probe = "empty"
    THEN [result |-> NoneNone, calls |-> <<"probe">>, shown |-> "no_data"]
    ELSE IF o.probe = "raise"
    THEN [result |-> NoneNone, calls |-> <<"probe">>, shown |-> "probe_error"]
    ELSE IF o.history = "empty"
    THEN [result |-> NoneNone, calls |-> <<"probe", "history">>,
          shown |-> "no_history"]
    ELSE IF o.history = "raise"
    THEN [result |-> NoneNone, calls |-> <<"probe", "history">>,
          shown |-> "history_error"]
    ELSE IF o.info = "raise"
    THEN [result |-> <<o.history, "{}">>,
          calls |-> <<"probe", "history", "info">>, shown |-> "limited_info"]
    ELSE [result |-> <<o.history, "info">>,
          calls |-> <<"probe", "history", "info">>, shown |-> "none"]

-----------------------------------------------------------------------------
(* @st.cache_data(ttl=1800) around fetch_stock_data *)

TTL == 1800

\* the clock advances by half a ttl at a time
ClockStep == TTL \div 2

\* the requests the pages make: (symbol, start_date, end_date), dates as day
\* numbers; the last symbol fails validate_ticker
Requests ==
    { << <<"L", ".", "L">>, 1, 2 >>,
      << <<"L", ".", "L">>, 1, 3 >>,
      << <<"L", " ", "L">>, 1, 2 >> }

\* a faulty variant of the expiry test: entries never expire
FreshForever(c, key, now) == key \in DOMAIN c

\* an entry answers until ttl seconds after it was stored
Fresh(c, key, now) == key \in DOMAIN c /\ now - c[key].stamp < TTL

Store(c, key, value, now) == (key :> [value |-> value, stamp |-> now]) @@ c

NoCall ==
    [ key |-> <<>>, time |-> 0, result |-> NoneNone, calls |-> <<>>,
      shown |-> "none", hit |-> FALSE, ideal |-> NoneNone ]

NoPrev == [key |-> <<>>, time |-> 0, result |-> NoneNone]

\* One call of the decorated function.  ideal is what the same call returns
\* from a memo that never kept a (None, None).
CachedCall(symbol, start_date, end_date, o) ==
    LET key  == <<symbol, start_date, end_date>>
        hit  == Fresh(cache, key, clock)
        out  == fetch_body(symbol, start_date, end_date, o)
        hitC == Fresh(clean, key, clock)
    IN  /\ cache' = IF hit THEN cache ELSE Store(cache, key, out.result, clock)
        /\ clean' = IF hitC \/ out.result = NoneNone THEN clean
                    ELSE Store(clean, key, out.result, clock)
        /\ last' = [ key    |-> key,
                     time   |-> clock,
                     result |-> IF hit THEN cache[key].value ELSE out.result,
                     calls  |-> IF hit THEN <<>> ELSE out.calls,
                     shown  |-> IF hit THEN "none" ELSE out.shown,
                     hit    |-> hit,
                     ideal  |-> IF hitC THEN clean[key].value ELSE out.result ]
        /\ prev' = [key |-> last.key, time |-> last.time, result |-> last.result]

\* a call from a page that does nothing else
FetchStockData(symbol, start_date, end_date, o) ==
    /\ CachedCall(symbol, start_date, end_date, o)
    /\ UNCHANGED <<clock, tickerVars, analyzerVars, newsVars, pageVars>>

Fetch ==
    \E r \in Requests, o \in Outcomes :
        FetchStockData(r[1], r[2], r[3], o)

Tick ==
    /\ clock + ClockStep <= MaxClock
    /\ clock' = clock + ClockStep
    /\ UNCHANGED <<cache, clean, last, prev, tickerVars, analyzerVars, newsVars, pageVars>>

TickerIdle ==
    /\ sym = <<>>
    /\ verdict = "pending"

FetchIdle ==
    /\ clock = 0
    /\ cache = <<>>
    /\ clean = <<>>
    /\ last = NoCall
    /\ prev = NoPrev

\* no news page has run
NoFeed == [kind |-> "none"]

NoPage == [op |-> "none"]

NewsIdle ==
    /\ feed = NoFeed
    /\ headlines = <<>>
    /\ page = NoPage

\* no other page has run
NoRun == [pc |-> "none"]

PagesIdle ==
    /\ home = NoRun
    /\ forecast = NoRun
    /\ session = NoRun
    /\ loaded = NoRun

-----------------------------------------------------------------------------
(* StockAnalyzer: the recommendation scorer *)

\* {} ; a mapping is a function from its keys
EmptyDict == <<>>

IsEmptyDict(d) == DOMAIN d = {}

NoReturn == [op |-> "none"]

\* self.data = None ; a frame is its Close, Low and High columns, oldest bar first
NoData == [none |-> TRUE, Close |-> <<>>, Low |-> <<>>, High |-> <<>>]

\* self.info = None ; otherwise the provider's mapping
NoInfo == [none |-> TRUE, dict |-> <<>>]

\* StockAnalyzer.__init__, lines 10-17
AnalyzerIdle ==
    /\ technical_signals = EmptyDict
    /\ fundamental_metrics = EmptyDict
    /\ sentiment_score = 0
    /\ data = NoData
    /\ info = NoInfo
    /\ ret = NoReturn

\* min(max(score, 0), 100)
ClampScore(score) == IF score < 0 THEN 0 ELSE IF score > 100 THEN 100 ELSE score

\* a faulty variant of the technical score: an overbought RSI costs 10 points
TechnicalScoreOverboughtPenalty(signals) ==
    ClampScore(50
        + (IF signals["trend"] = "Bullish" THEN 15 ELSE 0)
        + (IF signals["rsi_signal"] = "Oversold" THEN 10 ELSE 0)
        - (IF signals["rsi_signal"] = "Overbought" THEN 10 ELSE 0)
        + (IF signals["price_trend"] = "Up" THEN 15 ELSE 0))

\* lines 119-130
calculate_technical_score(signals) ==
    ClampScore(50
        + (IF signals["trend"] = "Bullish" THEN 15 ELSE 0)
        + (IF signals["rsi_signal"] = "Oversold" THEN 10 ELSE 0)
        + (IF signals["price_trend"] = "Up" THEN 15 ELSE 0))

\* a faulty variant of the fundamental score: the margin and the debt bounds
\* are inclusive
FundamentalScoreInclusive(metrics) ==
    ClampScore(50
        + (IF 1000 <= metrics["pe_ratio"] /\ metrics["pe_ratio"] <= 2500
           THEN 10 ELSE 0)
        + (IF metrics["profit_margin"] >= 20 THEN 10 ELSE 0)
        + (IF metrics["debt_to_equity"] <= 100 THEN 10 ELSE 0))

\* a faulty variant of the fundamental score: a negative margin costs 10
FundamentalScoreLossPenalty(metrics) ==
    ClampScore(50
        + (IF 1000 <= metrics["pe_ratio"] /\ metrics["pe_ratio"] <= 2500
           THEN 10 ELSE 0)
        + (IF metrics["profit_margin"] > 20 THEN 10 ELSE 0)
        - (IF metrics["profit_margin"] < 0 THEN 10 ELSE 0)
        + (IF metrics["debt_to_equity"] < 100 THEN 10 ELSE 0))

\* lines 132-151; ratios in hundredths: 10 is 1000, 25 is 2500, 0.2 is 20, 1 is 100
calculate_fundamental_score(metrics) ==
    ClampScore(50
        + (IF 1000 <= metrics["pe_ratio"] /\ metrics["pe_ratio"] <= 2500
           THEN 10 ELSE 0)
        + (IF metrics["profit_margin"] > 20 THEN 10 ELSE 0)
        + (IF metrics["debt_to_equity"] < 100 THEN 10 ELSE 0))

\* a faulty variant of the total: weights one half, one half and one fifth
TotalHalfWeights(technical_score, fundamental_score, sentiment) ==
    5 * technical_score + 5 * fundamental_score + 2 * sentiment

\* a faulty variant of the total: the three scores added unweighted
TotalUnweighted(technical_score, fundamental_score, sentiment) ==
    10 * (technical_score + fundamental_score + sentiment)

\* lines 80-82, in tenths: 0.4, 0.4 and 0.2 of a score are 4, 4 and 2 tenths
TotalScore(technical_score, fundamental_score, sentiment) ==
    4 * technical_score + 4 * fundamental_score + 2 * sentiment

\* a faulty variant of the thresholds: strict comparisons
LabelStrict(total) ==
    IF total > 700 THEN "Strong Buy"
    ELSE IF total > 600 THEN "Buy"
    ELSE IF total > 400 THEN "Hold"
    ELSE IF total > 300 THEN "Sell"
    ELSE "Strong Sell"

\* lines 85-99, total in tenths
Label(total) ==
    IF total >= 700 THEN "Strong Buy"
    ELSE IF total >= 600 THEN "Buy"
    ELSE IF total >= 400 THEN "Hold"
    ELSE IF total >= 300 THEN "Sell"
    ELSE "Strong Sell"

\* a faulty variant of the guard: the sentinel only when both mappings are empty
InsufficientBoth(signals, metrics) ==
    IsEmptyDict(signals) /\ IsEmptyDict(metrics)

\* line 72: not all([self.technical_signals, self.fundamental_metrics])
Insufficient(signals, metrics) ==
    IsEmptyDict(signals) \/ IsEmptyDict(metrics)

TechnicalKeys == {"trend", "rsi_signal", "price_trend"}

FundamentalKeys == {"pe_ratio", "profit_margin", "debt_to_equity"}

\* lines 70-101; score in tenths.  A subscript on a missing key is a KeyError.
get_investment_recommendation(signals, metrics, sentiment) ==
    IF Insufficient(signals, metrics)
    THEN [op |-> "get_investment_recommendation",
          label |-> "Insufficient Data", score |-> 0]
    ELSE IF ~(TechnicalKeys \subseteq DOMAIN signals
              /\ FundamentalKeys \subseteq DOMAIN metrics)
    THEN [op |-> "get_investment_recommendation",
          label |-> "KeyError", score |-> 0]
    ELSE LET total_score ==
                 TotalScore(calculate_technical_score(signals),
                            calculate_fundamental_score(metrics), sentiment)
         IN  [op |-> "get_investment_recommendation",
              label |-> Label(total_score), score |-> total_score]

GetInvestmentRecommendation ==
    /\ ret' = get_investment_recommendation(technical_signals,
                                            fundamental_metrics, sentiment_score)
    /\ UNCHANGED <<technical_signals, fundamental_metrics, sentiment_score,
                   data, info, tickerVars, fetchVars, newsVars, pageVars>>

\* _calculate_technical_score called on the stored signals
CalculateTechnicalScore ==
    /\ ret' = IF TechnicalKeys \subseteq DOMAIN technical_signals
              THEN [op |-> "_calculate_technical_score", raised |-> "",
                    value |-> calculate_technical_score(technical_signals)]
              ELSE [op |-> "_calculate_technical_score", raised |-> "KeyError",
                    value |-> 0]
    /\ UNCHANGED <<technical_signals, fundamental_metrics, sentiment_score,
                   data, info, tickerVars, fetchVars, newsVars, pageVars>>

\* _calculate_fundamental_score called on the stored metrics
CalculateFundamentalScore ==
    /\ ret' = IF FundamentalKeys \subseteq DOMAIN fundamental_metrics
              THEN [op |-> "_calculate_fundamental_score", raised |-> "",
                    value |-> calculate_fundamental_score(fundamental_metrics)]
              ELSE [op |-> "_calculate_fundamental_score", raised |-> "KeyError",
                    value |-> 0]
    /\ UNCHANGED <<technical_signals, fundamental_metrics, sentiment_score,
                   data, info, tickerVars, fetchVars, newsVars, pageVars>>

-----------------------------------------------------------------------------
(* StockAnalyzer: the indicators *)

\* A float an indicator yields: not-a-number, +infinity, or the ratio n / d
\* with d > 0.  Prices are integers, so every sum below is exact.
NaN == [k |-> "nan", n |-> 0, d |-> 1]

Inf == [k |-> "inf", n |-> 0, d |-> 1]

Num(n, d) == [k |-> "num", n |-> n, d |-> d]

\* a > b ; a comparison with NaN is false
FGt(a, b) ==
    /\ a.k # "nan"
    /\ b.k # "nan"
    /\ IF a.k = "inf" THEN b.k # "inf"
       ELSE IF b.k = "inf" THEN FALSE
       ELSE a.n * b.d > b.n * a.d

\* a < b
FLt(a, b) == FGt(b, a)

\* a faulty variant of the division: a zero divisor raises, which the caller
\* sees as no value
FDivNoZero(a, b) ==
    IF a.k = "nan" \/ b.k = "nan" THEN NaN
    ELSE IF b.n = 0 THEN NaN
    ELSE Num(a.n * b.d, a.d * b.n)

\* a / b for two non-negative finite floats, as numpy divides: x / 0 is inf
\* for x > 0 and 0 / 0 is NaN, neither raises
FDiv(a, b) ==
    IF a.k = "nan" \/ b.k = "nan" THEN NaN
    ELSE IF b.n = 0 THEN (IF a.n = 0 THEN NaN ELSE Inf)
    ELSE Num(a.n * b.d, a.d * b.n)

\* c + a for an integer c
FAddInt(c, a) ==
    IF a.k = "num" THEN Num(c * a.d + a.n, a.d) ELSE a

\* c / a for a positive integer c and a float a >= 1 ; c / inf is 0
FIntDiv(c, a) ==
    IF a.k = "nan" THEN NaN
    ELSE IF a.k = "inf" THEN Num(0, 1)
    ELSE Num(c * a.d, a.n)

\* c - a for an integer c and a finite or undefined float a
FIntSub(c, a) ==
    IF a.k = "num" THEN Num(c * a.d - a.n, a.d) ELSE a

RECURSIVE SumRange(_, _, _)
\* s[lo] + ... + s[hi]
SumRange(s, lo, hi) ==
    IF lo > hi THEN 0
    ELSE IF lo = hi THEN s[lo]
    ELSE LET mid == (lo + hi) \div 2
         IN  SumRange(s, lo, mid) + SumRange(s, mid + 1, hi)

\* a faulty variant of the rolling mean: the mean of the bars there are
\* (min_periods = 1)
RollingMeanPartial(s, window, i) ==
    IF i < window THEN Num(SumRange(s, 1, i), i)
    ELSE Num(SumRange(s, i - window + 1, i), window)

\* s.rolling(window).mean() at bar i: NaN until the window is full
RollingMean(s, window, i) ==
    IF i < window THEN NaN
    ELSE Num(SumRange(s, i - window + 1, i), window)

\* lines 38, 39, 103, 113 and 117
ShortWindow == 50

LongWindow == 200

RsiPeriod == 14

TailBars == 20

\* line 106: delta.where(delta > 0, 0) ; the first delta is NaN and becomes 0
Gains(prices) ==
    [i \in 1..Len(prices) |->
        IF i > 1 /\ prices[i] - prices[i - 1] > 0
        THEN prices[i] - prices[i - 1] ELSE 0]

\* line 107: -delta.where(delta < 0, 0)
Losses(prices) ==
    [i \in 1..Len(prices) |->
        IF i > 1 /\ prices[i] - prices[i - 1] < 0
        THEN prices[i - 1] - prices[i] ELSE 0]

\* lines 103-109: the RSI of every bar
calculate_rsi(prices) ==
    LET gains == Gains(prices)
        losses == Losses(prices)
    IN  [i \in 1..Len(prices) |->
            LET gain == RollingMean(gains, RsiPeriod, i)
                loss == RollingMean(losses, RsiPeriod, i)
                rs == FDiv(gain, loss)
            IN  FIntSub(100, FIntDiv(100, FAddInt(1, rs)))]

RECURSIVE MinRange(_, _, _)
MinRange(s, lo, hi) ==
    IF lo = hi THEN s[hi]
    ELSE LET m == MinRange(s, lo, hi - 1) IN IF s[hi] < m THEN s[hi] ELSE m

RECURSIVE MaxRange(_, _, _)
MaxRange(s, lo, hi) ==
    IF lo = hi THEN s[hi]
    ELSE LET m == MaxRange(s, lo, hi - 1) IN IF s[hi] > m THEN s[hi] ELSE m

TailStart(s) == IF Len(s) > TailBars THEN Len(s) - TailBars + 1 ELSE 1

\* lines 111-113, on a frame with at least one bar
find_support(d) == MinRange(d.Low, TailStart(d.Low), Len(d.Low))

\* lines 115-117
find_resistance(d) == MaxRange(d.High, TailStart(d.High), Len(d.High))

\* a faulty variant of line 45: a tie of the two averages counts as bullish
TrendTieBullish(sma_50, sma_200) ==
    IF sma_50.k = "num" /\ sma_200.k = "num" /\ ~FLt(sma_50, sma_200)
    THEN "Bullish" ELSE "Bearish"

\* line 45
Trend(sma_50, sma_200) ==
    IF FGt(sma_50, sma_200) THEN "Bullish" ELSE "Bearish"

\* a faulty variant of line 46: the two bounds are inclusive
RsiSignalInclusive(rsi) ==
    IF rsi.k = "num" /\ ~FGt(rsi, Num(30, 1)) THEN "Oversold"
    ELSE IF rsi.k = "num" /\ ~FLt(rsi, Num(70, 1)) THEN "Overbought"
    ELSE "Neutral"

\* line 46
RsiSignal(rsi) ==
    IF FLt(rsi, Num(30, 1)) THEN "Oversold"
    ELSE IF FGt(rsi, Num(70, 1)) THEN "Overbought"
    ELSE "Neutral"

\* line 47
PriceTrend(current_price, sma_50) ==
    IF FGt(Num(current_price, 1), sma_50) THEN "Up" ELSE "Down"

\* lines 31-52.  series[-1] is the last bar; on a frame without bars the
\* lookup raises (KeyError or IndexError, both LookupError).  The result
\* names what was returned or raised and the mapping the call stored, if any.
analyze_technicals(d) ==
    IF d.none
    THEN [op |-> "analyze_technicals", raised |-> "", value |-> EmptyDict,
          stored |-> FALSE]
    ELSE IF Len(d.Close) = 0
    THEN [op |-> "analyze_technicals", raised |-> "LookupError",
          value |-> EmptyDict, stored |-> FALSE]
    ELSE LET close_prices == d.Close
             last_bar == Len(close_prices)
             sma_50 == RollingMean(close_prices, ShortWindow, last_bar)
             sma_200 == RollingMean(close_prices, LongWindow, last_bar)
             rsi == calculate_rsi(close_prices)
             current_price == close_prices[last_bar]
         IN  [op |-> "analyze_technicals", raised |-> "",
              value |-> [ trend            |-> Trend(sma_50, sma_200),
                          rsi_signal       |-> RsiSignal(rsi[last_bar]),
                          price_trend      |-> PriceTrend(current_price, sma_50),
                          support_level    |-> find_support(d),
                          resistance_level |-> find_resistance(d) ],
              stored |-> TRUE]

AnalyzeTechnicals ==
    /\ ret' = analyze_technicals(data)
    /\ technical_signals' = IF ret'.stored THEN ret'.value ELSE technical_signals
    /\ UNCHANGED <<fundamental_metrics, sentiment_score, data, info,
                   tickerVars, fetchVars, newsVars, pageVars>>

\* _calculate_rsi on the closes of a frame
CalculateRsi ==
    /\ ~data.none
    /\ ret' = [op |-> "_calculate_rsi", raised |-> "",
               value |-> calculate_rsi(data.Close)]
    /\ UNCHANGED <<technical_signals, fundamental_metrics, sentiment_score,
                   data, info, tickerVars, fetchVars, newsVars, pageVars>>

-----------------------------------------------------------------------------
(* StockAnalyzer: the fundamentals and the fetch *)

\* a faulty variant of line 56: only None counts as absent
InfoAbsentNoneOnly(i) == i.none

\* line 56: not self.info
InfoAbsent(i) == i.none \/ DOMAIN i.dict = {}

\* dict.get(key, default)
Get(dict, key, default) == IF key \in DOMAIN dict THEN dict[key] ELSE default

\* lines 54-68
analyze_fundamentals(i) ==
    IF InfoAbsent(i)
    THEN [op |-> "analyze_fundamentals", raised |-> "", value |-> EmptyDict,
          stored |-> FALSE]
    ELSE [op |-> "analyze_fundamentals", raised |-> "",
          value |-> [ pe_ratio         |-> Get(i.dict, "forwardPE", 0),
                      peg_ratio        |-> Get(i.dict, "pegRatio", 0),
                      profit_margin    |-> Get(i.dict, "profitMargins", 0),
                      debt_to_equity   |-> Get(i.dict, "debtToEquity", 0),
                      return_on_equity |-> Get(i.dict, "returnOnEquity", 0),
                      quick_ratio      |-> Get(i.dict, "quickRatio", 0) ],
          stored |-> TRUE]

AnalyzeFundamentals ==
    /\ ret' = analyze_fundamentals(info)
    /\ fundamental_metrics' =
           IF ret'.stored THEN ret'.value ELSE fundamental_metrics
    /\ UNCHANGED <<technical_signals, sentiment_score, data, info,
                   tickerVars, fetchVars, newsVars, pageVars>>

\* lines 19-29.  history is what self.stock.history answers and answer what
\* self.stock.info answers: each either raises or delivers a frame or a
\* mapping.  The result is the new data, the new info and the value returned.
fetch_data(d, i, history, answer) ==
    IF history.raises
    THEN [data |-> d, info |-> i, value |-> FALSE]
    ELSE IF Len(history.frame.Close) = 0
    THEN [data |-> history.frame, info |-> i, value |-> FALSE]
    ELSE IF answer.raises
    THEN [data |-> history.frame, info |-> i, value |-> FALSE]
    ELSE [data |-> history.frame,
          info |-> [none |-> FALSE, dict |-> answer.dict], value |-> TRUE]

-----------------------------------------------------------------------------
(* The price histories the indicators are applied to *)

Rep(n, v) == [i \in 1..n |-> v]

Shift(level, offsets) == [i \in 1..Len(offsets) |-> level + offsets[i]]

\* the last bars of a history, as offsets from the level before them
Tails ==
    { <<0>>, Rep(13, 0), Rep(14, 0), Rep(14, 1), Rep(14, -1),
      [i \in 1..14 |-> i], [i \in 1..14 |-> 0 - i],
      <<3>> \o Rep(13, -4), <<-3>> \o Rep(13, 4),
      <<1>> \o Rep(13, -8), <<-1>> \o Rep(13, 8) }

\* bars at a first level, then bars at a second level, before the tail
Shapes == { <<0, 0>>, <<0, 36>>, <<0, 186>>, <<150, 36>>, <<170, 16>> }

Levels == { <<100, 100>>, <<100, 130>>, <<130, 100>> }

CloseSeries ==
    { Rep(sh[1], lv[1]) \o Rep(sh[2], lv[2]) \o Shift(lv[2], t) :
        sh \in Shapes, lv \in Levels, t \in Tails }

\* a bar's low is below and its high above its close
Frame(closes) ==
    [none |-> FALSE, Close |-> closes,
     Low |-> [i \in 1..Len(closes) |-> closes[i] - 1],
     High |-> [i \in 1..Len(closes) |-> closes[i] + 1]]

\* the frame of a history without bars
EmptyFrame == Frame(<<>>)

Frames == { Frame(c) : c \in CloseSeries }

InitTechnicals ==
    /\ data \in {NoData, EmptyFrame} \cup Frames
    /\ technical_signals = EmptyDict
    /\ fundamental_metrics = EmptyDict
    /\ sentiment_score = 0
    /\ info = NoInfo
    /\ ret = NoReturn
    /\ TickerIdle
    /\ FetchIdle
    /\ NewsIdle
    /\ PagesIdle

NextTechnicals == AnalyzeTechnicals \/ CalculateRsi

SpecTechnicals == InitTechnicals /\ [][NextTechnicals]_vars

-----------------------------------------------------------------------------
(* analyze_fundamentals applied to every partial company info *)

InfoKeys ==
    {"forwardPE", "pegRatio", "profitMargins", "debtToEquity",
     "returnOnEquity", "quickRatio", "marketCap"}

\* complete infos; ratios in hundredths
FullInfos ==
    [ forwardPE      : {1500, 3000},
      pegRatio       : {120},
      profitMargins  : {25},
      debtToEquity   : {50, 150},
      returnOnEquity : {18},
      quickRatio     : {90},
      marketCap      : {1} ]

Restrict(f, K) == [k \in K |-> f[k]]

\* every info the provider may deliver: any subset of the fields
InfoDicts == { Restrict(f, K) : f \in FullInfos, K \in SUBSET InfoKeys }

InitFundamentals ==
    /\ info \in {NoInfo} \cup { [none |-> FALSE, dict |-> d] : d \in InfoDicts }
    /\ technical_signals = EmptyDict
    /\ fundamental_metrics = EmptyDict
    /\ sentiment_score = 0
    /\ data = NoData
    /\ ret = NoReturn
    /\ TickerIdle
    /\ FetchIdle
    /\ NewsIdle
    /\ PagesIdle

NextFundamentals == AnalyzeFundamentals

SpecFundamentals == InitFundamentals /\ [][NextFundamentals]_vars

-----------------------------------------------------------------------------
(* One analyzer object under every order of its calls *)

\* what self.stock.history may answer: it raises, or delivers no bars, one
\* bar, or 200 bars (flat, or risen with a last dip)
ProviderHistories ==
    { [raises |-> TRUE, frame |-> EmptyFrame] }
    \cup { [raises |-> FALSE, frame |-> f] :
             f \in { EmptyFrame, Frame(<<100>>), Frame(Rep(200, 100)),
                     Frame(Rep(170, 100) \o Rep(16, 130) \o Rep(14, 129)) } }

\* what self.stock.info may answer: it raises, or delivers an empty, a
\* partial or a complete mapping
ProviderInfos ==
    { [raises |-> TRUE, dict |-> EmptyDict] }
    \cup { [raises |-> FALSE, dict |-> d] :
             d \in { EmptyDict,
                     Restrict([forwardPE |-> 1500], {"forwardPE"}),
                     [ forwardPE |-> 1500, pegRatio |-> 120,
                       profitMargins |-> 25, debtToEquity |-> 50,
                       returnOnEquity |-> 18, quickRatio |-> 90,
                       marketCap |-> 1 ] } }

FetchData ==
    \E history \in ProviderHistories, answer \in ProviderInfos :
        LET r == fetch_data(data, info, history, answer)
        IN  /\ data' = r.data
            /\ info' = r.info
            /\ ret' = [op |-> "fetch_data", raised |-> "", value |-> r.value]
            /\ UNCHANGED <<technical_signals, fundamental_metrics,
                           sentiment_score, tickerVars, fetchVars, newsVars, pageVars>>

InitAnalyzer ==
    /\ AnalyzerIdle
    /\ TickerIdle
    /\ FetchIdle
    /\ NewsIdle
    /\ PagesIdle

NextAnalyzer ==
    \/ FetchData
    \/ AnalyzeTechnicals
    \/ AnalyzeFundamentals
    \/ GetInvestmentRecommendation

SpecAnalyzer == InitAnalyzer /\ [][NextAnalyzer]_vars

-----------------------------------------------------------------------------
(* The news pages *)

\* a >= b ; a comparison with NaN is false
FGe(a, b) == a.k = "num" /\ b.k = "num" /\ a.n * b.d >= b.n * a.d

\* a <= b
FLe(a, b) == FGe(b, a)

\* a faulty variant of the sector page's classification: strict comparisons
SectorClassifyStrict(score) ==
    IF FGt(score, Num(50, 1)) THEN <<"Bullish", "bullish">>
    ELSE IF FLt(score, Num(-50, 1)) THEN <<"Bearish", "bearish">>
    ELSE <<"Neutral", "neutral">>

\* Sentimental.py lines 71-78; scores in thousandths, 0.05 is 50.  The
\* labels are written without the pictograph that follows them in the source.
classify_sentiment(score) ==
    IF FGe(score, Num(50, 1)) THEN <<"Bullish", "bullish", "green">>
    ELSE IF FLe(score, Num(-50, 1)) THEN <<"Bearish", "bearish", "red">>
    ELSE <<"Neutral", "neutral", "gray">>

\* Sector_Sentiment.py lines 69-76
sector_classify_sentiment(score) ==
    IF FGe(score, Num(50, 1)) THEN <<"Bullish", "bullish">>
    ELSE IF FLe(score, Num(-50, 1)) THEN <<"Bearish", "bearish">>
    ELSE <<"Neutral", "neutral">>

\* np.mean of a non-empty list
Mean(scores) == Num(SumRange(scores, 1, Len(scores)), Len(scores))

\* Sector_Sentiment.py line 141: articles[:5]
HeadlineLimit == 5

\* Sentimental.py lines 93-129: the sentiment shown for the articles h, each
\* with the compound score of its title
sentimental_main(h) ==
    IF Len(h) = 0
    THEN [op |-> "Sentimental.main", shown |-> FALSE, overall |-> <<>>,
          items |-> <<>>]
    ELSE LET sentiments == [i \in 1..Len(h) |-> h[i].title]
         IN  [op |-> "Sentimental.main", shown |-> TRUE,
              overall |-> classify_sentiment(Mean(sentiments)),
              items |-> [i \in 1..Len(h) |->
                            classify_sentiment(Num(h[i].title, 1))]]

\* Sector_Sentiment.py lines 109-149: the mean is over the scores of title
\* and description together, the headlines listed are the first five, each
\* with the score of its title
sector_main(h) ==
    IF Len(h) = 0
    THEN [op |-> "Sector_Sentiment.main", shown |-> FALSE, overall |-> <<>>,
          items |-> <<>>]
    ELSE LET sentiments == [i \in 1..Len(h) |-> h[i].full]
             listed == IF Len(h) > HeadlineLimit THEN HeadlineLimit ELSE Len(h)
         IN  [op |-> "Sector_Sentiment.main", shown |-> TRUE,
              overall |-> sector_classify_sentiment(Mean(sentiments)),
              items |-> [i \in 1..listed |->
                            sector_classify_sentiment(Num(h[i].title, 1))]]

SentimentalMain ==
    /\ page' = sentimental_main(headlines)
    /\ UNCHANGED <<feed, headlines, tickerVars, fetchVars, analyzerVars, pageVars>>

SectorMain ==
    /\ page' = sector_main(headlines)
    /\ UNCHANGED <<feed, headlines, tickerVars, fetchVars, analyzerVars, pageVars>>

\* the keys fetch_news of Sentimental.py keeps of an article
ArticleKeys == {"title", "description", "url", "publishedAt", "source"}

\* Sentimental.py lines 55-61 on one article: a missing key is a KeyError, a
\* null source a TypeError, a source without name a KeyError
Reshapable(article) ==
    /\ ArticleKeys \subseteq DOMAIN article
    /\ ~article.source.null
    /\ article.source.named

Reshape(article) ==
    [ title       |-> article.title,
      description |-> article.description,
      url         |-> article.url,
      publishedAt |-> article.publishedAt,
      source      |-> article.source.name ]

\* Sentimental.py lines 36-64, a call that reaches the body: f is what the
\* news client answers.  The whole body is inside the try.
fetch_news(f) ==
    IF f.raises \/ ~f.has_articles THEN <<>>
    ELSE IF \E i \in 1..Len(f.articles) : ~Reshapable(f.articles[i]) THEN <<>>
    ELSE [i \in 1..Len(f.articles) |-> Reshape(f.articles[i])]

\* Sector_Sentiment.py lines 37-62: the provider's records are returned as
\* they are
sector_fetch_news(f) ==
    IF f.raises \/ ~f.has_articles THEN <<>> ELSE f.articles

SentimentalFetchNews ==
    /\ page' = [op |-> "Sentimental.fetch_news", raised |-> "",
                value |-> fetch_news(feed)]
    /\ UNCHANGED <<feed, headlines, tickerVars, fetchVars, analyzerVars, pageVars>>

SectorFetchNews ==
    /\ page' = [op |-> "Sector_Sentiment.fetch_news", raised |-> "",
                value |-> sector_fetch_news(feed)]
    /\ UNCHANGED <<feed, headlines, tickerVars, fetchVars, analyzerVars, pageVars>>

-----------------------------------------------------------------------------
(* The news pages applied to every short list of articles *)

\* compound scores around the two thresholds, in thousandths
Scores == {-51, -50, -49, 0, 49, 50, 51}

\* an article as the pages score it: its title, and title and description
Headlines == [title : Scores, full : Scores]

HeadlineLists ==
    UNION { [1..n -> Headlines] : n \in 0..MaxArticles }
    \cup { [i \in 1..(HeadlineLimit + 1) |-> h] : h \in Headlines }

InitSentiment ==
    /\ headlines \in HeadlineLists
    /\ feed = NoFeed
    /\ page = NoPage
    /\ PagesIdle
    /\ TickerIdle
    /\ FetchIdle
    /\ AnalyzerIdle

NextSentiment == SentimentalMain \/ SectorMain

SpecSentiment == InitSentiment /\ [][NextSentiment]_vars

\* a source as the provider delivers it: null, or a mapping with or without
\* a name
NamedSource == [null |-> FALSE, named |-> TRUE, name |-> "Reuters"]

UnnamedSource == [null |-> FALSE, named |-> FALSE, name |-> ""]

NullSource == [null |-> TRUE, named |-> FALSE, name |-> ""]

\* a record as the provider documents it; author is a key the pages ignore
WellFormed(title) ==
    [ title |-> title, description |-> "text", url |-> "link",
      publishedAt |-> "date", source |-> NamedSource, author |-> "name" ]

\* records of the provider: two well-formed ones, and ones with a key
\* missing or a source that is null or unnamed
Articles ==
    { WellFormed("first"), WellFormed("second"),
      Restrict(WellFormed("first"), ArticleKeys \ {"title"}),
      Restrict(WellFormed("first"), ArticleKeys \ {"description"}),
      Restrict(WellFormed("first"), ArticleKeys \ {"source"}),
      [WellFormed("first") EXCEPT !.source = NullSource],
      [WellFormed("first") EXCEPT !.source = UnnamedSource] }

\* what the news client answers: it raises (no credential, rate limit,
\* network), or a response without the articles key, or a list of records
Feeds ==
    { [raises |-> TRUE, has_articles |-> FALSE, articles |-> <<>>],
      [raises |-> FALSE, has_articles |-> FALSE, articles |-> <<>>] }
    \cup { [raises |-> FALSE, has_articles |-> TRUE, articles |-> a] :
             a \in UNION { [1..n -> Articles] : n \in 0..MaxArticles } }

InitNews ==
    /\ feed \in Feeds
    /\ headlines = <<>>
    /\ page = NoPage
    /\ PagesIdle
    /\ TickerIdle
    /\ FetchIdle
    /\ AnalyzerIdle

NextNews == SentimentalFetchNews \/ SectorFetchNews

SpecNews == InitNews /\ [][NextNews]_vars

-----------------------------------------------------------------------------
(* The scorer applied to every analyzer state *)

\* the mappings analyze_technicals (lines 44-50) and analyze_fundamentals
\* (lines 59-66) store, and {} as the constructor leaves them
SignalMappings ==
    [ trend            : {"Bullish", "Bearish"},
      rsi_signal       : {"Oversold", "Overbought", "Neutral"},
      price_trend      : {"Up", "Down"},
      support_level    : {1},
      resistance_level : {2} ]

MetricMappings ==
    [ pe_ratio         : {-1000000, 0, 999, 1000, 1500, 2500, 2501, 1000000},
      peg_ratio        : {0},
      profit_margin    : {-50, 0, 20, 21, 25},
      debt_to_equity   : {0, 50, 99, 100, 100000},
      return_on_equity : {0},
      quick_ratio      : {0} ]

\* the sentiment a caller supplies, pre-scaled to the 0-100 scale of the scores
MaxSentiment == 100

Sentiments == 0..MaxSentiment

InitScorer ==
    /\ technical_signals \in {EmptyDict} \cup SignalMappings
    /\ fundamental_metrics \in {EmptyDict} \cup MetricMappings
    /\ sentiment_score \in Sentiments
    /\ data = NoData
    /\ info = NoInfo
    /\ ret = NoReturn
    /\ TickerIdle
    /\ FetchIdle
    /\ NewsIdle
    /\ PagesIdle

NextScorer == GetInvestmentRecommendation

SpecScorer == InitScorer /\ [][NextScorer]_vars

-----------------------------------------------------------------------------
(* The two sub-scores applied to every pair of stored mappings *)

InitSubScores ==
    /\ technical_signals \in {EmptyDict} \cup SignalMappings
    /\ fundamental_metrics \in {EmptyDict} \cup MetricMappings
    /\ sentiment_score = 0
    /\ data = NoData
    /\ info = NoInfo
    /\ ret = NoReturn
    /\ TickerIdle
    /\ FetchIdle
    /\ NewsIdle
    /\ PagesIdle

NextSubScores == CalculateTechnicalScore \/ CalculateFundamentalScore

SpecSubScores == InitSubScores /\ [][NextSubScores]_vars

-----------------------------------------------------------------------------
(* The fetcher under every interleaving of calls and clock steps *)

InitFetch ==
    /\ FetchIdle
    /\ TickerIdle
    /\ AnalyzerIdle
    /\ NewsIdle
    /\ PagesIdle

NextFetch == Fetch \/ Tick

SpecFetch == InitFetch /\ [][NextFetch]_vars

-----------------------------------------------------------------------------
(* The validator applied to every symbol up to MaxSymLen *)

InitTicker ==
    /\ sym \in Symbols
    /\ verdict = "pending"
    /\ FetchIdle
    /\ AnalyzerIdle
    /\ NewsIdle
    /\ PagesIdle

ValidateTicker ==
    /\ verdict = "pending"
    /\ verdict' = validate_outcome(sym)
    /\ UNCHANGED <<sym, fetchVars, analyzerVars, newsVars, pageVars>>

NextTicker == ValidateTicker

SpecTicker == InitTicker /\ [][NextTicker]_vars

-----------------------------------------------------------------------------
(* Home.main: one analyzer per run, the overview tab first *)

\* what the symbol box may hold: nothing, or one of the examples of line 21
HomeSymbols == {"", "AAPL", "MSFT", "TCS.NS"}

\* a faulty variant of the order of the tabs: the analyses before the overview
HomeOrderAnalysesFirst ==
    <<"analyze_technicals", "analyze_fundamentals",
      "get_investment_recommendation">>

\* lines 41-74: the analyzer's methods in the order the tabs call them once
\* fetch_data has returned True
HomeOrder ==
    <<"get_investment_recommendation", "analyze_technicals",
      "analyze_fundamentals">>

NothingShown == [label |-> "", score |-> 0]

\* lines 19-33: the script reads the symbol box; an empty box shows the
\* welcome text, any other symbol gets a new StockAnalyzer
HomeBegin ==
    /\ home.pc \in {"none", "welcome", "failed", "done"}
    /\ \E symbol \in HomeSymbols :
           IF symbol = ""
           THEN /\ home' = [pc |-> "welcome", symbol |-> symbol, at |-> 0,
                            called |-> <<>>, recommendation |-> NothingShown]
                /\ UNCHANGED analyzerVars
           ELSE /\ home' = [pc |-> "fetch", symbol |-> symbol, at |-> 0,
                            called |-> <<>>, recommendation |-> NothingShown]
                /\ technical_signals' = EmptyDict
                /\ fundamental_metrics' = EmptyDict
                /\ sentiment_score' = 0
                /\ data' = NoData
                /\ info' = NoInfo
                /\ ret' = NoReturn
    /\ UNCHANGED <<forecast, session, loaded, tickerVars, fetchVars, newsVars>>

\* lines 34 and 84-85: fetch_data(period="1y"); False ends the run with the
\* error message
HomeFetch ==
    /\ home.pc = "fetch"
    /\ \E history \in ProviderHistories, answer \in ProviderInfos :
           LET r == fetch_data(data, info, history, answer)
           IN  /\ data' = r.data
               /\ info' = r.info
               /\ ret' = [op |-> "fetch_data", raised |-> "", value |-> r.value]
               /\ home' = [home EXCEPT !.pc = IF r.value THEN "tabs" ELSE "failed",
                                       !.at = IF r.value THEN 1 ELSE 0,
                                       !.called = <<"fetch_data">>]
    /\ UNCHANGED <<technical_signals, fundamental_metrics, sentiment_score,
                   forecast, session, loaded, tickerVars, fetchVars, newsVars>>

\* lines 41-83: the next tab calls its method on the analyzer; the overview
\* tab shows the recommendation and the score it was given
HomeTab ==
    /\ home.pc = "tabs"
    /\ LET method == HomeOrder[home.at]
           r == IF method = "get_investment_recommendation"
                THEN get_investment_recommendation(
                         technical_signals, fundamental_metrics, sentiment_score)
                ELSE IF method = "analyze_technicals"
                THEN analyze_technicals(data)
                ELSE analyze_fundamentals(info)
           failed == IF method = "get_investment_recommendation"
                     THEN r.label = "KeyError"
                     ELSE r.raised # ""
       IN  /\ ret' = r
           /\ technical_signals' =
                  IF method = "analyze_technicals" /\ r.stored
                  THEN r.value ELSE technical_signals
           /\ fundamental_metrics' =
                  IF method = "analyze_fundamentals" /\ r.stored
                  THEN r.value ELSE fundamental_metrics
           /\ home' = [home EXCEPT
                          !.pc = IF failed THEN "failed"
                                 ELSE IF home.at = Len(HomeOrder) THEN "done"
                                 ELSE "tabs",
                          !.at = home.at + 1,
                          !.called = Append(home.called, method),
                          !.recommendation =
                              IF method = "get_investment_recommendation"
                                 /\ ~failed
                              THEN [label |-> r.label, score |-> r.score]
                              ELSE home.recommendation]
    /\ UNCHANGED <<sentiment_score, data, info, forecast, session, loaded,
                   tickerVars, fetchVars, newsVars>>

InitHome ==
    /\ AnalyzerIdle
    /\ TickerIdle
    /\ FetchIdle
    /\ NewsIdle
    /\ PagesIdle

NextHome ==
    \/ HomeBegin
    \/ HomeFetch
    \/ HomeTab

SpecHome == InitHome /\ [][NextHome]_vars

-----------------------------------------------------------------------------
(* Technical_Analysis: the runs of the page in one session *)

\* what the symbol box may hold
PageInputs ==
    { <<>>, <<" ">>, <<"l">>, <<"L", "L">>, <<"L", ".", "L">>,
      <<"L", "L", "L", "L", "L", "L">> }

\* line 81: str.isalpha()
IsAlpha(s) == s # <<>> /\ \A i \in 1..Len(s) : s[i] \in {"L", "l"}

\* line 84: the longest symbol the page lets through
PageSymbolLimit == 5

\* lines 122-131: start_date and end_date of the first period, "1 Month",
\* as day numbers
PageDates == <<0, 30>>

\* line 164: time.sleep(2)
SleepSeconds == 2

\* a faulty variant of lines 163-165: the flag survives the sleep
RetryDelayKeepsFlag(last_error) ==
    IF last_error
    THEN [sleeps |-> 1, seconds |-> SleepSeconds, last_error |-> TRUE]
    ELSE [sleeps |-> 0, seconds |-> 0, last_error |-> FALSE]

\* lines 163-165: with the flag in the session state the run sleeps and
\* deletes the flag
RetryDelay(last_error) ==
    IF last_error
    THEN [sleeps |-> 1, seconds |-> SleepSeconds, last_error |-> FALSE]
    ELSE [sleeps |-> 0, seconds |-> 0, last_error |-> FALSE]

\* a run of the script starts: lines 73-95 read and screen the symbol
\* (st.stop() ends the run), line 159 tests it, lines 202-203 answer an
\* empty one.  The session state outlives the run.
PageBegin ==
    /\ session.pc \in {"none", "end"}
    /\ \E input \in PageInputs :
           LET ticker == Strip(Upper(input))
               flag == IF session.pc = "none" THEN FALSE ELSE session.last_error
               run == [ pc |-> "delay", ticker |-> ticker, last_error |-> flag,
                        inherited |-> flag,
                        sleeps |-> 0, seconds |-> 0, fetches |-> 0,
                        flag_at_fetch |-> FALSE,
                        before |-> IF session.pc = "none" THEN "none"
                                   ELSE session.outcome,
                        outcome |-> "running" ]
           IN  session' =
                   IF ticker = <<>>
                   THEN [run EXCEPT !.pc = "end", !.outcome = "no_symbol"]
                   ELSE IF ~IsAlpha(ticker) \/ Len(ticker) > PageSymbolLimit
                   THEN [run EXCEPT !.pc = "end", !.outcome = "stopped"]
                   ELSE run
    /\ UNCHANGED <<home, forecast, loaded, tickerVars, fetchVars, analyzerVars,
                   newsVars>>

\* lines 163-165
PageDelay ==
    /\ session.pc = "delay"
    /\ LET r == RetryDelay(session.last_error)
       IN  session' = [session EXCEPT !.pc = "fetch",
                                      !.sleeps = session.sleeps + r.sleeps,
                                      !.seconds = session.seconds + r.seconds,
                                      !.last_error = r.last_error]
    /\ UNCHANGED <<home, forecast, loaded, tickerVars, fetchVars, analyzerVars,
                   newsVars>>

\* lines 167-169: the one call of fetch_stock_data; without data the run
\* ends, nothing shown and nothing recorded
PageFetch ==
    /\ session.pc = "fetch"
    /\ \E o \in Outcomes :
           /\ CachedCall(session.ticker, PageDates[1], PageDates[2], o)
           /\ session' =
                  [session EXCEPT
                      !.pc = IF last'.result[1] = "None" THEN "end"
                             ELSE "display",
                      !.outcome = IF last'.result[1] = "None" THEN "no_data"
                                  ELSE "running",
                      !.fetches = session.fetches + 1,
                      !.flag_at_fetch = session.last_error]
    /\ UNCHANGED <<clock, home, forecast, loaded, tickerVars, analyzerVars,
                   newsVars>>

\* lines 170-200: the metric and the chart; an exception of theirs is
\* caught at line 198 and sets the flag
PageDisplay ==
    /\ session.pc = "display"
    /\ \E raises \in BOOLEAN :
           session' =
               IF raises
               THEN [session EXCEPT !.pc = "end", !.outcome = "raised",
                                    !.last_error = TRUE]
               ELSE [session EXCEPT !.pc = "end", !.outcome = "ok"]
    /\ UNCHANGED <<home, forecast, loaded, tickerVars, fetchVars, analyzerVars,
                   newsVars>>

InitTechnicalPage ==
    /\ PagesIdle
    /\ TickerIdle
    /\ FetchIdle
    /\ AnalyzerIdle
    /\ NewsIdle

NextTechnicalPage ==
    \/ PageBegin
    \/ PageDelay
    \/ PageFetch
    \/ PageDisplay

SpecTechnicalPage == InitTechnicalPage /\ [][NextTechnicalPage]_vars

-----------------------------------------------------------------------------
(* Prediction.load_data *)

\* lines 24-33: the longest range in days the provider serves per interval
MAX_PERIODS ==
    ("1m" :> 7) @@ ("5m" :> 60) @@ ("15m" :> 60) @@ ("30m" :> 60)
    @@ ("1h" :> 730) @@ ("1d" :> 1825) @@ ("1wk" :> 3650) @@ ("1mo" :> 3650)

\* line 52: the intraday intervals
IntradayIntervals == {"1m", "5m", "15m", "30m", "1h"}

\* str.endswith(suffix)
EndsWith(s, suffix) ==
    /\ Len(s) >= Len(suffix)
    /\ SubSeq(s, Len(s) - Len(suffix) + 1, Len(s)) = suffix

\* lines 40-42
is_indian_stock(ticker) ==
    EndsWith(ticker, <<".", "N", "S">>) \/ EndsWith(ticker, <<".", "B", "O">>)

\* a faulty variant of line 58: the start date is sent as given
AdjustedStartAsGiven(start_date, end_date, max_days) == start_date

\* line 58: max(start_date, end_date - timedelta(days=max_days)), dates as
\* day numbers
AdjustedStart(start_date, end_date, max_days) ==
    IF start_date >= end_date - max_days THEN start_date
    ELSE end_date - max_days

NothingSent == [start |-> 0, end |-> 0, interval |-> ""]

\* lines 48-77.  answer is what yf.download does with the request: it
\* delivers rows, delivers an empty frame, or raises.  An interval missing
\* from MAX_PERIODS raises KeyError at line 57, inside the try.
load_data(ticker, interval, start_date, end_date, answer) ==
    IF is_indian_stock(ticker) /\ interval \in IntradayIntervals
    THEN [value |-> "None", called |-> FALSE, sent |-> NothingSent,
          shown |-> "intraday", raised |-> ""]
    ELSE IF interval \notin DOMAIN MAX_PERIODS
    THEN [value |-> "None", called |-> FALSE, sent |-> NothingSent,
          shown |-> "error", raised |-> ""]
    ELSE LET max_days == MAX_PERIODS[interval]
             adjusted_start == AdjustedStart(start_date, end_date, max_days)
             request == [start |-> adjusted_start, end |-> end_date,
                         interval |-> interval]
         IN  IF answer = "raise"
             THEN [value |-> "None", called |-> TRUE, sent |-> request,
                   shown |-> "error", raised |-> ""]
             ELSE IF answer = "empty"
             THEN [value |-> "None", called |-> TRUE, sent |-> request,
                   shown |-> "no_data", raised |-> ""]
             ELSE [value |-> "df", called |-> TRUE, sent |-> request,
                   shown |-> "", raised |-> ""]

\* the tickers asked for: plain, with either Indian suffix, with parts of
\* one, a bare suffix, and a lower-case one
LoadTickers ==
    { <<"A">>, <<"A", ".", "N", "S">>, <<"A", ".", "B", "O">>,
      <<"A", ".", "N">>, <<".", "N", "S">>, <<"N", "S">>,
      <<"a", ".", "n", "s">> }

\* the intervals of MAX_PERIODS and one the table does not have
LoadIntervals == DOMAIN MAX_PERIODS \cup {"2h"}

\* the day the range ends
LoadEnds == {3651, 4000}

\* how many days before its end the range asked for starts: on, one short
\* of and one past every limit, and one day after the end
LoadSpans ==
    {-1, 0, 6, 7, 8, 59, 60, 61, 729, 730, 731, 1824, 1825, 1826,
     3649, 3650, 3651}

AnswerSet == {"rows", "empty", "raise"}

\* a caller is about to call load_data; the function keeps nothing from one
\* call to the next, so one call per behaviour covers it
LoadRequest ==
    /\ loaded.pc = "none"
    /\ \E ticker \in LoadTickers, interval \in LoadIntervals,
          end_date \in LoadEnds, span \in LoadSpans :
           loaded' = [ pc |-> "call", ticker |-> ticker, interval |-> interval,
                       start_date |-> end_date - span, end_date |-> end_date,
                       answer |-> "", result |-> NoReturn ]
    /\ UNCHANGED <<home, forecast, session, tickerVars, fetchVars, analyzerVars,
                   newsVars>>

\* the call itself
LoadData ==
    /\ loaded.pc = "call"
    /\ \E answer \in AnswerSet :
           LET r == load_data(loaded.ticker, loaded.interval, loaded.start_date,
                              loaded.end_date, answer)
           IN  loaded' = [loaded EXCEPT
                             !.pc = "returned",
                             !.answer = IF r.called THEN answer ELSE "",
                             !.result = r]
    /\ UNCHANGED <<home, forecast, session, tickerVars, fetchVars, analyzerVars,
                   newsVars>>

InitLoad ==
    /\ PagesIdle
    /\ TickerIdle
    /\ FetchIdle
    /\ AnalyzerIdle
    /\ NewsIdle

NextLoad ==
    \/ LoadRequest
    \/ LoadData

SpecLoad == InitLoad /\ [][NextLoad]_vars

-----------------------------------------------------------------------------
(* Prediction.main: the forecast loop *)

\* line 124: the lookback slider starts at 10
MinLookback == 10

\* lines 138-139: MinMaxScaler(feature_range=(0, 1)).fit_transform ; a
\* constant column is scaled to 0
MinOf(closes) == MinRange(closes, 1, Len(closes))

MaxOf(closes) == MaxRange(closes, 1, Len(closes))

Scale(closes) ==
    LET lo == MinOf(closes)
        hi == MaxOf(closes)
    IN  [i \in 1..Len(closes) |->
            IF hi = lo THEN Num(0, 1) ELSE Num(closes[i] - lo, hi - lo)]

\* line 166: scaler.inverse_transform of one scaled value
Unscale(x, lo, hi) ==
    IF hi = lo THEN Num(x.n + lo * x.d, x.d)
    ELSE Num(x.n * (hi - lo) + lo * x.d, x.d)

\* line 159: scaled_data[-lookback:]
LastValues(seq, count) ==
    IF Len(seq) <= count THEN seq
    ELSE SubSeq(seq, Len(seq) - count + 1, Len(seq))

\* a faulty variant of line 165: the oldest value is kept
NextWindowKeepOldest(current_seq, pred) == Append(current_seq, pred)

\* line 165: np.append(current_seq[1:], pred, axis=0)
NextWindow(current_seq, pred) == Append(Tail(current_seq), pred)

\* what model.predict may answer, as scaled values: the network is trained
\* anew on every run, so any value may come out at any step
Predictions == {Num(1, 4), Num(3, 4)}

\* the page after load_data delivered the closes and the sliders gave
\* lookback and prediction_periods (lines 117-134)
ForecastInput(closes, lookback, prediction_periods) ==
    [ pc |-> "prepare", lookback |-> lookback,
      prediction_periods |-> prediction_periods, closes |-> closes,
      lo |-> 0, hi |-> 0, last_sequence |-> <<>>, current_seq |-> <<>>,
      future_pred |-> <<>>, raised |-> "" ]

\* lines 138-161: scaling, the training windows and the first window.  With
\* no more closes than lookback there is no training window, X is an empty
\* array and X.shape[1] (line 146) raises IndexError.
ForecastPrepare ==
    /\ forecast.pc = "prepare"
    /\ forecast' =
           IF Len(forecast.closes) <= forecast.lookback
           THEN [forecast EXCEPT !.pc = "raised", !.raised = "IndexError"]
           ELSE LET scaled_data == Scale(forecast.closes)
                    last_sequence == LastValues(scaled_data, forecast.lookback)
                IN  [forecast EXCEPT !.pc = "loop",
                                     !.lo = MinOf(forecast.closes),
                                     !.hi = MaxOf(forecast.closes),
                                     !.closes = <<>>,
                                     !.last_sequence = last_sequence,
                                     !.current_seq = last_sequence]
    /\ UNCHANGED <<home, session, loaded, tickerVars, fetchVars, analyzerVars,
                   newsVars>>

\* lines 162-165: one iteration of the loop
ForecastStep ==
    /\ forecast.pc = "loop"
    /\ Len(forecast.future_pred) < forecast.prediction_periods
    /\ \E pred \in Predictions :
           forecast' =
               [forecast EXCEPT !.future_pred = Append(@, pred),
                                !.current_seq = NextWindow(@, pred)]
    /\ UNCHANGED <<home, session, loaded, tickerVars, fetchVars, analyzerVars,
                   newsVars>>

\* line 166: the loop has ended, the predictions are scaled back to prices
ForecastEnd ==
    /\ forecast.pc = "loop"
    /\ Len(forecast.future_pred) = forecast.prediction_periods
    /\ forecast' =
           [forecast EXCEPT
               !.pc = "done",
               !.future_pred =
                   [i \in 1..Len(@) |-> Unscale(@[i], forecast.lo, forecast.hi)]]
    /\ UNCHANGED <<home, session, loaded, tickerVars, fetchVars, analyzerVars,
                   newsVars>>

\* closes rising by one a bar: every bar has a scaled value of its own
Ramp(bars) == [i \in 1..bars |-> 100 + i]

InitForecast ==
    /\ \E lookback \in MinLookback..MaxLookback,
          prediction_periods \in 1..MaxPeriods :
           \E bars \in {lookback - 1, lookback, lookback + 2} :
               forecast = ForecastInput(Ramp(bars), lookback, prediction_periods)
    /\ home = NoRun
    /\ session = NoRun
    /\ loaded = NoRun
    /\ TickerIdle
    /\ FetchIdle
    /\ AnalyzerIdle
    /\ NewsIdle

NextForecast == ForecastPrepare \/ ForecastStep \/ ForecastEnd

SpecForecast == InitForecast /\ [][NextForecast]_vars

-----------------------------------------------------------------------------
(* Claims about validate_ticker, under SpecTicker *)

Validated == verdict # "pending"

Accepted == verdict = "ok"

\* the symbol as validate_ticker sees it, and its parts
Norm == Normalized(sym)

Dotted == HasDot(Norm)

BaseValid == IsAlnum(DropHyphens(SplitDot0(Norm)))

SuffixListed == SuffixOf(Norm) \in valid_suffixes

\* C2, as stated: a symbol holding a dot is accepted only if its suffix is on
\* the allow-list, whatever its length.
C2_DottedAcceptedOnlyIfListed ==
    Accepted /\ Dotted => SuffixListed

\* C2, amended: a symbol holding a dot is accepted exactly when its base part
\* is valid and its suffix is on the allow-list or the symbol has at most 6
\* characters; an unlisted suffix is rejected only beyond 6 characters.
C2_DottedAcceptedIffListedOrShort ==
    Validated /\ Dotted =>
        (Accepted <=> BaseValid /\ (SuffixListed \/ Len(Norm) <= 6))

\* C2 witness: a short symbol with an unlisted suffix has been accepted.
C2_Witness ==
    Accepted /\ Dotted /\ ~SuffixListed /\ Len(SplitDot1(Norm)) > 0

\* C3, as stated: every accepted symbol is bounded in length, 5 characters
\* without a dot and a fixed length (the 6 of line 26) with one.
C3_AcceptedLengthBounded ==
    Accepted => Len(Norm) <= (IF Dotted THEN DottedLimit ELSE PlainLimit)

\* C3, amended: an accepted symbol without a dot has at most 5 characters and
\* an accepted symbol with an unlisted suffix at most 6, while a symbol with a
\* valid base and a listed suffix is accepted at every length.
C3_LengthBoundedUnlessListed ==
    /\ Accepted /\ ~Dotted => Len(Norm) <= 5
    /\ Accepted /\ Dotted /\ ~SuffixListed => Len(Norm) <= 6
    /\ Validated /\ Dotted /\ BaseValid /\ SuffixListed => Accepted

\* C3 witness: a symbol with a listed suffix, longer than 6 characters, has
\* been accepted.
C3_Witness ==
    Accepted /\ Dotted /\ SuffixListed /\ Len(Norm) > 6

-----------------------------------------------------------------------------
(* Claims about fetch_stock_data, under SpecFetch *)

Called == last.key # <<>>

Rejected == Called /\ ~validate_ticker(last.key[1])

ResultPairs == {NoneNone} \cup (Tables \X {"info", "{}"})

\* C1: a call with a symbol validate_ticker rejects returns (None, None) and
\* issues no provider request: no probe, no history, no info.
C1_RejectedNoProviderCall ==
    Rejected => last.result = NoneNone /\ last.calls = <<>>

\* C1 witness: the body has run for a rejected symbol.
C1_Witness ==
    Rejected /\ ~last.hit /\ last.shown = "invalid"

\* C4: every call returns a pair, whatever the provider answers, and the pair
\* is (None, None) whenever the probe or the history request came back empty
\* or raised.
C4_NeverRaises ==
    Called =>
        /\ last.result \in ResultPairs
        /\ last.shown \in {"no_data", "probe_error", "no_history", "history_error"}
               => last.result = NoneNone
        /\ last.shown = "limited_info" => last.result[1] \in Tables

\* C4 witness: the history request has raised inside a call.
C4_Witness ==
    Called /\ last.shown = "history_error" /\ last.result = NoneNone

\* C5: the probe is the first request of every call that asks the provider
\* anything, and after an empty or raising probe nothing else is asked and the
\* result is (None, None).
C5_ProbeFirst ==
    Called =>
        /\ last.calls # <<>> => last.calls[1] = "probe"
        /\ \A i \in 1..Len(last.calls) :
               last.calls[i] = "history"
                   => \E j \in 1..(i - 1) : last.calls[j] = "probe"
        /\ last.shown \in {"no_data", "probe_error"}
               => last.calls = <<"probe">> /\ last.result = NoneNone

\* C5 witness: a probe has come back empty.
C5_Witness ==
    Called /\ last.shown = "no_data" /\ last.calls = <<"probe">>

\* C6, as stated: of two calls in a row with one key, less than 1800 seconds
\* apart, the second returns the first's pair and asks the provider nothing;
\* 1800 seconds or more apart, the second asks the provider again.
C6_TwoCallsWithinWindow ==
    Called /\ prev.key = last.key =>
        /\ last.time - prev.time < 1800
               => last.result = prev.result /\ last.calls = <<>>
        /\ last.time - prev.time >= 1800 /\ validate_ticker(last.key[1])
               => last.calls # <<>>

\* C6, amended: the window runs from the call that stored the entry.  A call
\* whose key has an entry stored less than 1800 seconds before returns the
\* stored pair, asks the provider nothing and leaves the entry and its time
\* alone; any other call runs the body, stores its result under the key with
\* the time of the call and, for a symbol that passes validation, starts with
\* the probe.
C6_WindowFromStore ==
    [][ clock' = clock =>
          LET key    == last'.key
              stored == key \in DOMAIN cache /\ clock - cache[key].stamp < 1800
          IN  /\ stored => /\ last'.result = cache[key].value
                           /\ last'.calls = <<>>
                           /\ cache' = cache
              /\ ~stored => /\ cache'[key] = [value |-> last'.result, stamp |-> clock]
                            /\ validate_ticker(key[1]) => last'.calls # <<>>
                            /\ last'.calls # <<>> => last'.calls[1] = "probe"
      ]_vars

\* C6 witness: a call has been answered from an entry stored at an earlier
\* time.
C6_Witness ==
    Called /\ last.hit /\ cache[last.key].stamp < last.time

\* C7: a call that returned (None, None) leaves no trace: every call returns
\* what it would return had no failed result ever been kept.
C7_FailureLeavesNoTrace ==
    Called => last.result = last.ideal

-----------------------------------------------------------------------------
(* Claims about get_investment_recommendation, under SpecScorer *)

Recommended == ret.op = "get_investment_recommendation"

FiveLabels == {"Strong Buy", "Buy", "Hold", "Sell", "Strong Sell"}

\* C8: the call returns ("Insufficient Data", 0) exactly when
\* technical_signals or fundamental_metrics is empty, and one of the five
\* labels otherwise.
C8_SentinelIffEmpty ==
    Recommended =>
        /\ ret.label = "Insufficient Data"
               <=> (technical_signals = EmptyDict \/ fundamental_metrics = EmptyDict)
        /\ ret.label = "Insufficient Data" => ret.score = 0
        /\ ret.label # "Insufficient Data" => ret.label \in FiveLabels

\* C8 witness: the sentinel has been returned with only one mapping empty.
C8_Witness ==
    /\ Recommended
    /\ ret.label = "Insufficient Data"
    /\ technical_signals # EmptyDict
    /\ fundamental_metrics = EmptyDict

\* the sub-scores of section 4.4 read off the stored mappings
TechnicalOf ==
    50 + (IF technical_signals.trend = "Bullish" THEN 15 ELSE 0)
       + (IF technical_signals.rsi_signal = "Oversold" THEN 10 ELSE 0)
       + (IF technical_signals.price_trend = "Up" THEN 15 ELSE 0)

FundamentalOf ==
    50 + (IF fundamental_metrics.pe_ratio \in 1000..2500 THEN 10 ELSE 0)
       + (IF fundamental_metrics.profit_margin > 20 THEN 10 ELSE 0)
       + (IF fundamental_metrics.debt_to_equity < 100 THEN 10 ELSE 0)

\* C9: with both mappings non-empty the total is 0.4 technical + 0.4
\* fundamental + 0.2 sentiment (in tenths: 4, 4, 2) and the label is Strong
\* Buy from 70, Buy from 60, Hold from 40, Sell from 30, Strong Sell below;
\* technical 90, fundamental 80, sentiment 100 give 88 and Strong Buy.
C9_TotalAndLabel ==
    Recommended /\ ret.label # "Insufficient Data" =>
        /\ ret.score = 4 * TechnicalOf + 4 * FundamentalOf + 2 * sentiment_score
        /\ ret.label = "Strong Buy" <=> ret.score >= 700
        /\ ret.label = "Buy" <=> (600 <= ret.score /\ ret.score < 700)
        /\ ret.label = "Hold" <=> (400 <= ret.score /\ ret.score < 600)
        /\ ret.label = "Sell" <=> (300 <= ret.score /\ ret.score < 400)
        /\ ret.label = "Strong Sell" <=> ret.score < 300
        /\ TechnicalOf = 90 /\ FundamentalOf = 80 /\ sentiment_score = 100
               => ret.score = 880 /\ ret.label = "Strong Buy"

\* C9 witness: the example of the specification, 88 and Strong Buy.
C9_Witness ==
    /\ Recommended
    /\ technical_signals # EmptyDict
    /\ fundamental_metrics # EmptyDict
    /\ technical_signals.trend = "Bullish"
    /\ technical_signals.rsi_signal = "Oversold"
    /\ technical_signals.price_trend = "Up"
    /\ fundamental_metrics.pe_ratio = 1500
    /\ fundamental_metrics.profit_margin = 25
    /\ fundamental_metrics.debt_to_equity = 50
    /\ sentiment_score = 100
    /\ ret.score = 880
    /\ ret.label = "Strong Buy"

-----------------------------------------------------------------------------
(* Claims about the two sub-scores, under SpecSubScores *)

TechnicalScored == ret.op = "_calculate_technical_score" /\ ret.raised = ""

FundamentalScored == ret.op = "_calculate_fundamental_score" /\ ret.raised = ""

\* C11: for every combination of trend, rsi_signal and price_trend the
\* technical score is 50, plus 15 when trend is Bullish, plus 10 when
\* rsi_signal is Oversold, plus 15 when price_trend is Up, clamped to
\* [0, 100]; an Overbought rsi_signal changes nothing.
C11_TechnicalSubScore ==
    TechnicalScored =>
        LET t == IF technical_signals.trend = "Bullish" THEN 15 ELSE 0
            r == IF technical_signals.rsi_signal = "Oversold" THEN 10 ELSE 0
            p == IF technical_signals.price_trend = "Up" THEN 15 ELSE 0
            raw == 50 + t + r + p
        IN  /\ ret.value = IF raw < 0 THEN 0 ELSE IF raw > 100 THEN 100 ELSE raw
            /\ technical_signals.rsi_signal \in {"Overbought", "Neutral"}
                   => ret.value = 50 + t + p

\* C11 witness: an overbought, bullish, rising stock has been scored 80.
C11_Witness ==
    /\ TechnicalScored
    /\ technical_signals.trend = "Bullish"
    /\ technical_signals.rsi_signal = "Overbought"
    /\ technical_signals.price_trend = "Up"
    /\ ret.value = 80

\* C12: the fundamental score is 50, plus 10 when 10 <= pe_ratio <= 25
\* (both ends included), plus 10 when profit_margin > 0.20 (strictly), plus
\* 10 when debt_to_equity < 1 (strictly), clamped to [0, 100].
C12_FundamentalSubScore ==
    FundamentalScored =>
        LET m == fundamental_metrics
            e == IF m.pe_ratio >= 1000 /\ m.pe_ratio <= 2500 THEN 10 ELSE 0
            g == IF m.profit_margin > 20 THEN 10 ELSE 0
            d == IF m.debt_to_equity < 100 THEN 10 ELSE 0
            raw == 50 + e + g + d
        IN  /\ ret.value = IF raw < 0 THEN 0 ELSE IF raw > 100 THEN 100 ELSE raw
            /\ m.pe_ratio \in {1000, 2500} => ret.value >= 60
            /\ m.profit_margin = 20 /\ m.debt_to_equity = 100 => ret.value <= 60

\* C12 witness: metrics on all three boundaries have been scored 60.
C12_Witness ==
    /\ FundamentalScored
    /\ fundamental_metrics.pe_ratio = 2500
    /\ fundamental_metrics.profit_margin = 20
    /\ fundamental_metrics.debt_to_equity = 100
    /\ ret.value = 60

-----------------------------------------------------------------------------
(* Claims about analyze_technicals and _calculate_rsi *)

TechnicalsCalled == ret.op = "analyze_technicals"

Bars == Len(data.Close)

\* the analysis ran on a frame with at least one bar
TechnicalsOnBars == TechnicalsCalled /\ ~data.none /\ Bars > 0

\* C13: analyze_technicals returns {} and does not raise whenever prices are
\* absent: data is None, or the frame a failed fetch_data left has no bars.
C13_AbsentPricesGiveEmptyMapping ==
    TechnicalsCalled /\ (data.none \/ Bars = 0) =>
        ret.raised = "" /\ IsEmptyDict(ret.value)

\* C14: on a non-empty series shorter than 200 bars analyze_technicals does
\* not raise and returns a mapping whose trend is Bullish or Bearish and
\* whose price_trend is Up or Down; the undefined long average makes trend
\* Bearish, and under 50 bars the undefined short average makes price_trend
\* Down.
C14_ShortSeriesDefined ==
    TechnicalsOnBars /\ Bars < 200 =>
        /\ ret.raised = ""
        /\ ret.value.trend \in {"Bullish", "Bearish"}
        /\ ret.value.price_trend \in {"Up", "Down"}
        /\ ret.value.trend = "Bearish"
        /\ Bars < 50 => ret.value.price_trend = "Down"
        /\ technical_signals = ret.value

\* C14 witness: a series of 50 to 199 bars has been analysed as Bearish, Up.
C14_Witness ==
    /\ TechnicalsOnBars
    /\ Bars >= 50
    /\ Bars < 200
    /\ ret.value.trend = "Bearish"
    /\ ret.value.price_trend = "Up"

RECURSIVE CloseSum(_, _)
\* the sum of the closes of bars lo..hi
CloseSum(lo, hi) ==
    IF lo > hi THEN 0 ELSE data.Close[lo] + CloseSum(lo + 1, hi)

\* the sum of the last 50 closes in 50 steps, of the last 200 in 4 x 50
Last50 == CloseSum(Bars - 49, Bars)

Last200 ==
    CloseSum(Bars - 199, Bars - 150) + CloseSum(Bars - 149, Bars - 100)
        + CloseSum(Bars - 99, Bars - 50) + Last50

\* C15: trend is Bullish exactly when the latest 50-bar average is strictly
\* above the latest 200-bar average (sum50 / 50 > sum200 / 200) and Bearish
\* otherwise; price_trend is Up exactly when the latest close is strictly
\* above the latest 50-bar average and Down otherwise.
C15_StrictComparisons ==
    TechnicalsOnBars =>
        /\ ret.value.trend = "Bullish"
               <=> (Bars >= 200 /\ 200 * Last50 > 50 * Last200)
        /\ ret.value.trend = "Bearish"
               <=> ~(Bars >= 200 /\ 200 * Last50 > 50 * Last200)
        /\ ret.value.price_trend = "Up"
               <=> (Bars >= 50 /\ 50 * data.Close[Bars] > Last50)
        /\ ret.value.price_trend = "Down"
               <=> ~(Bars >= 50 /\ 50 * data.Close[Bars] > Last50)

\* C15 witness: with the two averages and the last close all equal the
\* analysis said Bearish and Down.
C15_Witness ==
    /\ TechnicalsOnBars
    /\ Bars >= 200
    /\ 200 * Last50 = 50 * Last200
    /\ 50 * data.Close[Bars] = Last50
    /\ ret.value.trend = "Bearish"
    /\ ret.value.price_trend = "Down"

RECURSIVE Rises(_, _, _)
\* the sum of the rises from bar to bar among the deltas lo..hi of series c;
\* delta 1 does not exist and counts as no move
Rises(c, lo, hi) ==
    IF lo > hi THEN 0
    ELSE (IF lo > 1 /\ c[lo] > c[lo - 1] THEN c[lo] - c[lo - 1] ELSE 0)
             + Rises(c, lo + 1, hi)

RECURSIVE Falls(_, _, _)
Falls(c, lo, hi) ==
    IF lo > hi THEN 0
    ELSE (IF lo > 1 /\ c[lo] < c[lo - 1] THEN c[lo - 1] - c[lo] ELSE 0)
             + Falls(c, lo + 1, hi)

\* the rises and the falls of the 14-delta window ending at bar i
G(i) == Rises(data.Close, i - 13, i)

L(i) == Falls(data.Close, i - 13, i)

\* the RSI of bar i is defined, and then equals 100 G / (G + L)
RsiDefined(i) == i >= 14 /\ G(i) + L(i) > 0

\* C16: rsi_signal is Oversold exactly when the latest RSI is below 30,
\* Overbought exactly when it is above 70 and Neutral otherwise; an RSI of
\* exactly 30 or exactly 70 and an undefined RSI give Neutral.
C16_RsiSignal ==
    TechnicalsOnBars =>
        LET g == G(Bars)
            l == L(Bars)
            below30 == RsiDefined(Bars) /\ 100 * g < 30 * (g + l)
            above70 == RsiDefined(Bars) /\ 100 * g > 70 * (g + l)
        IN  /\ ret.value.rsi_signal = "Oversold" <=> below30
            /\ ret.value.rsi_signal = "Overbought" <=> above70
            /\ ret.value.rsi_signal = "Neutral" <=> ~below30 /\ ~above70

\* C16 witness: an RSI of exactly 30 has been signalled Neutral.
C16_Witness ==
    /\ TechnicalsOnBars
    /\ RsiDefined(Bars)
    /\ 100 * G(Bars) = 30 * (G(Bars) + L(Bars))
    /\ ret.value.rsi_signal = "Neutral"

RsiCalled == ret.op = "_calculate_rsi"

\* C17: at every bar with a full window whose average gain and average loss
\* are not both zero the RSI is a number in [0, 100]; with an average loss
\* of zero it is exactly 100, and nothing is raised.
C17_RsiRange ==
    RsiCalled =>
        /\ ret.raised = ""
        /\ Len(ret.value) = Bars
        /\ \A i \in 14..Bars :
               G(i) + L(i) > 0 =>
                   /\ ret.value[i].k = "num"
                   /\ 0 <= ret.value[i].n
                   /\ ret.value[i].n <= 100 * ret.value[i].d
                   /\ L(i) = 0 => ret.value[i].n = 100 * ret.value[i].d

\* C17 witness: the RSI of a bar whose 14 deltas are all positive is 100.
C17_Witness ==
    /\ RsiCalled
    /\ Bars >= 15
    /\ \A i \in (Bars - 13)..Bars : data.Close[i] > data.Close[i - 1]
    /\ ret.value[Bars].k = "num"
    /\ ret.value[Bars].n = 100 * ret.value[Bars].d

-----------------------------------------------------------------------------
(* Claims about analyze_fundamentals, under SpecFundamentals *)

FundamentalsCalled == ret.op = "analyze_fundamentals"

SixKeys ==
    {"pe_ratio", "peg_ratio", "profit_margin", "debt_to_equity",
     "return_on_equity", "quick_ratio"}

\* the info field a metric is read from
FieldOf ==
    [ pe_ratio         |-> "forwardPE",
      peg_ratio        |-> "pegRatio",
      profit_margin    |-> "profitMargins",
      debt_to_equity   |-> "debtToEquity",
      return_on_equity |-> "returnOnEquity",
      quick_ratio      |-> "quickRatio" ]

\* C18: analyze_fundamentals returns {} when info is None or empty, and
\* otherwise a mapping with exactly the six keys, each the info field of
\* that metric or 0 when the field is missing; it never raises.
C18_SixKeysOrEmpty ==
    FundamentalsCalled =>
        /\ ret.raised = ""
        /\ (info.none \/ DOMAIN info.dict = {}) => IsEmptyDict(ret.value)
        /\ ~(info.none \/ DOMAIN info.dict = {}) =>
               /\ DOMAIN ret.value = SixKeys
               /\ \A key \in SixKeys :
                      ret.value[key] =
                          IF FieldOf[key] \in DOMAIN info.dict
                          THEN info.dict[FieldOf[key]] ELSE 0
               /\ fundamental_metrics = ret.value

\* C18 witness: an info without forwardPE but with profitMargins has been
\* analysed into six metrics.
C18_Witness ==
    /\ FundamentalsCalled
    /\ ~info.none
    /\ "forwardPE" \notin DOMAIN info.dict
    /\ "profitMargins" \in DOMAIN info.dict
    /\ DOMAIN ret.value = SixKeys
    /\ ret.value.pe_ratio = 0
    /\ ret.value.profit_margin = 25

-----------------------------------------------------------------------------
(* Claims about the news pages *)

SentimentShown ==
    /\ page.op \in {"Sentimental.main", "Sector_Sentiment.main"}
    /\ page.shown

\* the label of a mean sum / n of scores in thousandths: at least 0.05 is
\* Bullish, at most -0.05 is Bearish
LabelOf(sum, n) ==
    IF sum >= 50 * n THEN "Bullish"
    ELSE IF sum <= (0 - 50) * n THEN "Bearish"
    ELSE "Neutral"

RECURSIVE TitleSum(_)
\* the sum of the title scores of the first n articles
TitleSum(n) == IF n = 0 THEN 0 ELSE headlines[n].title + TitleSum(n - 1)

RECURSIVE FullSum(_)
FullSum(n) == IF n = 0 THEN 0 ELSE headlines[n].full + FullSum(n - 1)

\* C19: classify_sentiment of either page labels a score Bullish exactly
\* from 0.05 up, Bearish exactly from -0.05 down and Neutral in between, so
\* the two agree on every score, and each page labels both every headline
\* it lists and the mean of its scores with that function.
C19_OneClassification ==
    SentimentShown =>
        LET n == Len(headlines)
        IN  /\ page.op = "Sentimental.main" =>
                   /\ page.overall[1] = LabelOf(TitleSum(n), n)
                   /\ Len(page.items) = n
            /\ page.op = "Sector_Sentiment.main" =>
                   /\ page.overall[1] = LabelOf(FullSum(n), n)
                   /\ Len(page.items) = IF n > 5 THEN 5 ELSE n
            /\ \A i \in 1..Len(page.items) :
                   page.items[i][1] = LabelOf(headlines[i].title, 1)
            /\ \A i \in 1..n :
                   LET s == Num(headlines[i].full, 1)
                   IN  /\ classify_sentiment(s)[1] = LabelOf(s.n, 1)
                       /\ sector_classify_sentiment(s)[1] = LabelOf(s.n, 1)
                       /\ classify_sentiment(s)[2] = sector_classify_sentiment(s)[2]

\* C19 witness: the sector page has labelled a mean of exactly 0.05 Bullish
\* and a headline of exactly -0.05 Bearish.
C19_Witness ==
    /\ SentimentShown
    /\ page.op = "Sector_Sentiment.main"
    /\ Len(headlines) = 2
    /\ headlines[1].full = 49
    /\ headlines[2].full = 51
    /\ headlines[1].title = -50
    /\ page.overall[1] = "Bullish"
    /\ page.items[1][1] = "Bearish"

NewsFetched ==
    page.op \in {"Sentimental.fetch_news", "Sector_Sentiment.fetch_news"}

\* a record without one of the five keys, or whose source has no name
Malformed(article) ==
    \/ ArticleKeys \ DOMAIN article # {}
    \/ article.source.null
    \/ ~article.source.named

\* C20: fetch_news of either page raises nothing and returns the empty list
\* when the provider raised or delivered a malformed record; the list of
\* Sentimental.py is either empty or every article cut to the five keys.
C20_NewsFailsSoft ==
    NewsFetched =>
        /\ page.raised = ""
        /\ (\/ feed.raises
            \/ ~feed.has_articles
            \/ \E i \in 1..Len(feed.articles) : Malformed(feed.articles[i]))
               => Len(page.value) = 0
        /\ page.op = "Sentimental.fetch_news" =>
               \/ Len(page.value) = 0
               \/ /\ Len(page.value) = Len(feed.articles)
                  /\ \A i \in 1..Len(page.value) :
                         DOMAIN page.value[i] = ArticleKeys

-----------------------------------------------------------------------------
(* Claims about the forecast loop of Prediction.main, under SpecForecast *)

\* the number of predictions made so far
Made == Len(forecast.future_pred)

\* an iteration is about to start
IterationStarts ==
    forecast.pc = "loop" /\ Made < forecast.prediction_periods

\* C21: the loop makes exactly prediction_periods predictions, the window
\* holds exactly lookback values at the start of every iteration, and step
\* k + 1 is fed the predictions of steps 1..k, in order, at its end.
C21_FedAllPredictions ==
    /\ forecast.pc = "done" => Made = forecast.prediction_periods
    /\ IterationStarts =>
           /\ Len(forecast.current_seq) = forecast.lookback
           /\ Made <= forecast.lookback
           /\ \A j \in 1..Made :
                  forecast.current_seq[forecast.lookback - Made + j]
                      = forecast.future_pred[j]

\* C21, amended: the loop makes exactly prediction_periods predictions and
\* at the start of every iteration the window holds exactly lookback values,
\* namely the last lookback values of the first window followed by the
\* predictions made so far: step k + 1 is fed the last min(k, lookback)
\* predictions in order.
C21_WindowSlides ==
    /\ forecast.pc = "done" => Made = forecast.prediction_periods
    /\ forecast.pc = "loop" =>
           /\ Made <= forecast.prediction_periods
           /\ Len(forecast.last_sequence) = forecast.lookback
           /\ Len(forecast.current_seq) = forecast.lookback
           /\ \A i \in 1..forecast.lookback :
                  forecast.current_seq[i] =
                      (forecast.last_sequence \o forecast.future_pred)[Made + i]

\* C21 witness: an iteration starts after more predictions than the window
\* holds.
C21_Witness ==
    /\ IterationStarts
    /\ Made > forecast.lookback
    /\ Len(forecast.current_seq) = forecast.lookback

-----------------------------------------------------------------------------
(* A further claim about fetch_stock_data, under SpecFetch *)

\* C22: every result is (None, None) or a price table with an info: neither
\* half is None without the other, and when only the info lookup failed the
\* table is returned with the empty mapping.
C22_DataWithInfo ==
    Called =>
        /\ last.result[1] = "None" <=> last.result[2] = "None"
        /\ last.result[2] \in {"info", "{}"} => last.result[1] \in Tables
        /\ last.shown = "limited_info" =>
               /\ last.result[1] \in Tables
               /\ last.result[2] = "{}"
               /\ last.calls = <<"probe", "history", "info">>

\* C22 witness: the info lookup alone has failed and the table came back
\* with the empty mapping.
C22_Witness ==
    /\ Called
    /\ ~last.hit
    /\ last.shown = "limited_info"
    /\ last.result[1] \in Tables
    /\ last.result[2] = "{}"

-----------------------------------------------------------------------------
(* Claims about Home.main, under SpecHome *)

\* position of a method in the calls the run has made, 0 when not yet called
CalledAt(method) ==
    IF \E k \in 1..Len(home.called) : home.called[k] = method
    THEN CHOOSE k \in 1..Len(home.called) : home.called[k] = method
    ELSE 0

\* C23: in a run whose fetch_data succeeded the recommendation is asked of
\* the new analyzer before either analysis has run, so the overview shows
\* ("Insufficient Data", 0) and none of the five labels.
C23_AlwaysInsufficient ==
    home.pc \in {"tabs", "done"} =>
        /\ home.called[1] = "fetch_data"
        /\ ret.op = "fetch_data" => /\ ret.value
                                    /\ IsEmptyDict(technical_signals)
                                    /\ IsEmptyDict(fundamental_metrics)
        /\ \A m \in {"analyze_technicals", "analyze_fundamentals"} :
               CalledAt(m) > 0 =>
                   /\ CalledAt("get_investment_recommendation") > 0
                   /\ CalledAt("get_investment_recommendation") < CalledAt(m)
        /\ home.pc = "done" => CalledAt("get_investment_recommendation") > 0
        /\ CalledAt("get_investment_recommendation") > 0 =>
               /\ home.recommendation = [label |-> "Insufficient Data", score |-> 0]
               /\ home.recommendation.label \notin FiveLabels

\* C23 witness: a finished run whose analyses filled both mappings, enough
\* for a label, after the overview had shown the sentinel.
C23_Witness ==
    /\ home.pc = "done"
    /\ home.symbol = "TCS.NS"
    /\ ~Insufficient(technical_signals, fundamental_metrics)
    /\ get_investment_recommendation(technical_signals, fundamental_metrics,
                                     sentiment_score).label \in FiveLabels
    /\ home.recommendation.label = "Insufficient Data"

-----------------------------------------------------------------------------
(* A claim about the range of the scores, under SpecScorer *)

\* C24: with both mappings non-empty and a sentiment from 0 to 100 the
\* technical score is one of 50, 60, 65, 75, 80, 90, the fundamental score
\* one of 50, 60, 70, 80 and the total lies between 40 and 88 (in tenths:
\* 400 and 880); Sell and Strong Sell are never returned and neither clamp
\* changes a value.
C24_ScoreRanges ==
    Recommended /\ ret.label # "Insufficient Data" =>
        /\ calculate_technical_score(technical_signals)
               \in {50, 60, 65, 75, 80, 90}
        /\ calculate_technical_score(technical_signals) = TechnicalOf
        /\ calculate_fundamental_score(fundamental_metrics) \in {50, 60, 70, 80}
        /\ calculate_fundamental_score(fundamental_metrics) = FundamentalOf
        /\ 400 <= ret.score
        /\ ret.score <= 880
        /\ ret.label \in {"Strong Buy", "Buy", "Hold"}

\* C24 witness: the lowest total, 40, from both scores at 50 and sentiment 0,
\* with a loss-making, indebted company; the label is Hold.
C24_Witness ==
    /\ Recommended
    /\ ret.score = 400
    /\ ret.label = "Hold"
    /\ fundamental_metrics.profit_margin < 0
    /\ fundamental_metrics.debt_to_equity > 100
    /\ technical_signals.rsi_signal = "Overbought"

-----------------------------------------------------------------------------
(* A claim about the sentiment of a StockAnalyzer, under SpecAnalyzer *)

\* C25: sentiment_score is 0 from the constructor on and no method changes
\* it, so whatever calls have been made the total is at most 0.4 * 90 +
\* 0.4 * 80 = 68 (680 tenths) and Strong Buy is never returned.
C25_SentimentStaysZero ==
    /\ sentiment_score = 0
    /\ Recommended =>
           /\ ret.score <= 680
           /\ ret.label \in FiveLabels =>
                  ret.score =
                      4 * calculate_technical_score(technical_signals)
                      + 4 * calculate_fundamental_score(fundamental_metrics)
           /\ ret.label # "Strong Buy"

\* C25 witness: the best technical and fundamental scores, 90 and 80, were
\* reached through fetch_data and both analyses; the total is 68 and the
\* label Buy.
C25_Witness ==
    /\ Recommended
    /\ ~data.none
    /\ ret.label \in FiveLabels
    /\ calculate_technical_score(technical_signals) = 90
    /\ calculate_fundamental_score(fundamental_metrics) = 80
    /\ ret.score = 680
    /\ ret.label = "Buy"

-----------------------------------------------------------------------------
(* A claim about the Technical Analysis page, under SpecTechnicalPage *)

InRun == session.pc # "none"

\* C26: a run of the page sleeps at most once, for 2 seconds, and only when
\* the last_error flag was left by an earlier run; the flag is gone when the
\* fetch is issued, so the run after a successful run does not sleep; a run
\* issues the fetch at most once.
C26_OneSleepNoRetry ==
    InRun =>
        /\ session.sleeps <= 1
        /\ session.seconds = SleepSeconds * session.sleeps
        /\ session.sleeps = 1 <=>
               session.inherited /\ session.pc \in {"fetch", "display", "end"}
                                 /\ session.outcome \notin {"no_symbol", "stopped"}
        /\ session.inherited => session.before \in {"raised", "no_symbol", "stopped"}
        /\ session.fetches <= 1
        /\ session.fetches = 1 => ~session.flag_at_fetch
        /\ session.pc \in {"fetch", "display"} => ~session.last_error
        /\ session.before = "ok" => session.sleeps = 0 /\ ~session.inherited
        /\ session.outcome = "ok" => ~session.last_error /\ session.fetches = 1

\* C26 witness: a run that slept because the run before it had raised, then
\* fetched once and succeeded, the flag cleared.
C26_Witness ==
    /\ InRun
    /\ session.pc = "end"
    /\ session.before = "raised"
    /\ session.inherited
    /\ session.sleeps = 1
    /\ session.fetches = 1
    /\ session.outcome = "ok"
    /\ ~session.last_error

-----------------------------------------------------------------------------
(* A claim about Prediction.load_data, under SpecLoad *)

Returned == loaded.pc = "returned"

IndianTicker ==
    /\ Len(loaded.ticker) >= 3
    /\ SubSeq(loaded.ticker, Len(loaded.ticker) - 2, Len(loaded.ticker))
           \in {<<".", "N", "S">>, <<".", "B", "O">>}

IntradayAsked == loaded.interval \in {"1m", "5m", "15m", "30m", "1h"}

LimitOf ==
    IF loaded.interval = "1m" THEN 7
    ELSE IF loaded.interval \in {"5m", "15m", "30m"} THEN 60
    ELSE IF loaded.interval = "1h" THEN 730
    ELSE IF loaded.interval = "1d" THEN 1825
    ELSE 3650

\* C27: load_data returns None without a provider call for a ticker ending
\* in .NS or .BO asked at an intraday interval; any other request with an
\* interval of the table goes to the provider with the start date
\* max(start_date, end_date - limit), so the range sent is at most the
\* limit; an empty answer and a provider error return None, and nothing is
\* raised.
C27_LoadData ==
    Returned =>
        /\ loaded.result.raised = ""
        /\ loaded.result.value \in {"None", "df"}
        /\ IndianTicker /\ IntradayAsked =>
               ~loaded.result.called /\ loaded.result.value = "None"
        /\ ~(IndianTicker /\ IntradayAsked) /\ loaded.interval # "2h" =>
               loaded.result.called
        /\ loaded.result.called =>
               /\ loaded.result.sent.interval = loaded.interval
               /\ loaded.result.sent.end = loaded.end_date
               /\ loaded.result.sent.start >= loaded.start_date
               /\ loaded.result.sent.start >= loaded.end_date - LimitOf
               /\ loaded.result.sent.start
                      \in {loaded.start_date, loaded.end_date - LimitOf}
               /\ loaded.result.sent.end - loaded.result.sent.start <= LimitOf
        /\ loaded.answer \in {"empty", "raise"} => loaded.result.value = "None"
        /\ loaded.result.value = "df" <=>
               loaded.result.called /\ loaded.answer = "rows"

\* C27 witness: a daily request for an Indian ticker that asked for more
\* than the limit: the provider was called with the clipped start and
\* delivered rows.
C27_Witness ==
    /\ Returned
    /\ IndianTicker
    /\ loaded.interval = "1d"
    /\ loaded.start_date < loaded.end_date - LimitOf
    /\ loaded.result.called
    /\ loaded.result.sent.start = loaded.end_date - 1825
    /\ loaded.result.value = "df"

====
